---------------------------- MODULE Spec2Model ----------------------------
(***************************************************************************)
(* Model of the Ansible filter plugin ups_filters.py (class FilterModule): *)
(* the SNMP value normalizer, the numeric extractor, the UPS state         *)
(* decoder, the power-quality evaluator, the scorer and the recommendation *)
(* engine.                                                                 *)
(*                                                                         *)
(* Python values are records [kind, n, e, s]:                              *)
(*   None           kind = "none"                                          *)
(*   int n          kind = "int",   n                                      *)
(*   float n/10^e   kind = "float", n (mantissa), e (fraction digits),     *)
(*                  kept normalised (no trailing fraction zero)            *)
(*   float inf/nan  kind = "inf" / "nan"                                   *)
(*   str s          kind = "str",   s                                      *)
(* Strings are TLA+ strings, inspected character by character.             *)
(***************************************************************************)
EXTENDS Integers, Sequences, FiniteSets, TLC

VARIABLES
    pc,               \* position of the call in progress
    monitoring_data,  \* argument of analyze_power_quality
    snmp_data,        \* local of analyze_power_quality (line 31)
    todo,             \* keys of snmp_data the loop of line 35 has not visited
    parsed_data,      \* local of analyze_power_quality (line 34)
    issues,           \* local of analyze_power_quality (line 26)
    alerts,           \* local of analyze_power_quality (line 27)
    state_info,       \* local of analyze_power_quality (line 50)
    exc,              \* message of the exception in flight
    analysis,         \* local / return value of analyze_power_quality
    filter,           \* name of the pure filter called last
    arg,              \* its argument
    out               \* its return value

vars == <<pc, monitoring_data, snmp_data, todo, parsed_data, issues, alerts,
          state_info, exc, analysis, filter, arg, out>>

evalVars == <<monitoring_data, snmp_data, todo, parsed_data, issues, alerts,
              state_info, exc, analysis>>

filterVars == <<filter, arg, out>>

---------------------------------------------------------------------------
(* Python values *)

None == [kind |-> "none", n |-> 0, e |-> 0, s |-> ""]

PyInt(i) == [kind |-> "int", n |-> i, e |-> 0, s |-> ""]

PyStr(t) == [kind |-> "str", n |-> 0, e |-> 0, s |-> t]

Inf == [kind |-> "inf", n |-> 0, e |-> 0, s |-> ""]

NaN == [kind |-> "nan", n |-> 0, e |-> 0, s |-> ""]

RECURSIVE Pow10(_)
Pow10(k) == IF k = 0 THEN 1 ELSE 10 * Pow10(k - 1)

RECURSIVE PyFloat(_, _)
PyFloat(m, k) ==
    IF k > 0 /\ m % 10 = 0
    THEN PyFloat(m \div 10, k - 1)
    ELSE [kind |-> "float", n |-> m, e |-> k, s |-> ""]

IsNumber(v) == v.kind \in {"int", "float", "inf", "nan"}

IsFloat(v) == v.kind \in {"float", "inf", "nan"}

Abs(i) == IF i < 0 THEN -i ELSE i

Min(S) == CHOOSE x \in S : \A y \in S : x <= y

Max(S) == CHOOSE x \in S : \A y \in S : x >= y

---------------------------------------------------------------------------
(* Strings *)

Char(t, i) == SubSeq(t, i, i)

Digits == <<"0", "1", "2", "3", "4", "5", "6", "7", "8", "9">>

DigitSet == {Digits[i] : i \in 1..10}

DigitVal(c) == (CHOOSE i \in 1..10 : Digits[i] = c) - 1

Whitespace == {" ", "\t", "\n", "\r"}

Quotes == {"\"", "'"}

\* str.strip(chars): drop leading and trailing characters of the set.
StripSet(t, cs) ==
    LET keep == {i \in 1..Len(t) : Char(t, i) \notin cs}
    IN  IF keep = {} THEN "" ELSE SubSeq(t, Min(keep), Max(keep))

LStripSet(t, cs) ==
    LET keep == {i \in 1..Len(t) : Char(t, i) \notin cs}
    IN  IF keep = {} THEN "" ELSE SubSeq(t, Min(keep), Len(t))

\* p in t
Contains(t, p) ==
    \E i \in 1..(Len(t) - Len(p) + 1) : SubSeq(t, i, i + Len(p) - 1) = p

StartsWith(t, p) == Len(t) >= Len(p) /\ SubSeq(t, 1, Len(p)) = p

AllDigits(t) == \A i \in 1..Len(t) : Char(t, i) \in DigitSet

RECURSIVE StrToNat(_)
StrToNat(t) ==
    IF t = "" THEN 0
    ELSE 10 * StrToNat(SubSeq(t, 1, Len(t) - 1)) + DigitVal(Char(t, Len(t)))

RECURSIVE NatToStr(_)
NatToStr(i) ==
    IF i < 10 THEN Digits[i + 1]
    ELSE NatToStr(i \div 10) \o Digits[(i % 10) + 1]

RECURSIVE ZeroPad(_, _)
ZeroPad(t, w) == IF Len(t) >= w THEN t ELSE ZeroPad("0" \o t, w)

IntToStr(i) == IF i < 0 THEN "-" \o NatToStr(-i) ELSE NatToStr(i)

\* repr of a float: "180.0", "4.5", "-0.5", "inf", "nan"
FloatRepr(x) ==
    IF x.kind = "inf" THEN "inf"
    ELSE IF x.kind = "nan" THEN "nan"
    ELSE LET a == Abs(x.n)
             ip == a \div Pow10(x.e)
             fp == a % Pow10(x.e)
         IN  (IF x.n < 0 THEN "-" ELSE "")
             \o NatToStr(ip) \o "."
             \o (IF x.e = 0 THEN "0" ELSE ZeroPad(NatToStr(fp), x.e))

\* str(v), as an f-string interpolates it
py_str(v) ==
    CASE v.kind = "none" -> "None"
      [] v.kind = "int"  -> IntToStr(v.n)
      [] v.kind = "str"  -> v.s
      [] OTHER           -> FloatRepr(v)

\* bool(v)
Truthy(v) ==
    CASE v.kind = "none"  -> FALSE
      [] v.kind = "int"   -> v.n # 0
      [] v.kind = "float" -> v.n # 0
      [] v.kind = "str"   -> v.s # ""
      [] OTHER            -> TRUE

\* float(i) for an int i
float_of_int(i) == PyFloat(i, 0)

\* x < c, x > c, x == c for a float x and an integer literal c
FloatLT(x, c) == x.kind = "float" /\ x.n < c * Pow10(x.e)

FloatGT(x, c) == x.kind = "inf" \/ (x.kind = "float" /\ x.n > c * Pow10(x.e))

FloatEq(x, c) == x.kind = "float" /\ x.n = c * Pow10(x.e)

\* int(x) for a float x: truncation toward zero; raises on inf and nan
py_int(x) ==
    CASE x.kind = "inf" ->
            [ok |-> FALSE, n |-> 0, msg |-> "cannot convert float infinity to integer"]
      [] x.kind = "nan" ->
            [ok |-> FALSE, n |-> 0, msg |-> "cannot convert float NaN to integer"]
      [] OTHER ->
            [ok |-> TRUE,
             n |-> (IF x.n < 0 THEN -1 ELSE 1) * (Abs(x.n) \div Pow10(x.e)),
             msg |-> ""]

\* Decimal literals: optional sign, digits, optional point and digits.  The
\* texts explored hold no exponent, no digit-group underscore and no "inf" or
\* "nan" beside a point, the other forms int() and float() accept.
SignLen(t) == IF Len(t) >= 1 /\ Char(t, 1) \in {"-", "+"} THEN 1 ELSE 0

DotAt(t) == {i \in 1..Len(t) : Char(t, i) = "."}

\* value of sign D1 [. D2] as a float (the literal is known to be valid)
DecimalValue(t) ==
    LET sg   == SignLen(t)
        neg  == sg = 1 /\ Char(t, 1) = "-"
        body == SubSeq(t, sg + 1, Len(t))
        dots == DotAt(body)
        d1   == IF dots = {} THEN body ELSE SubSeq(body, 1, Min(dots) - 1)
        d2   == IF dots = {} THEN "" ELSE SubSeq(body, Min(dots) + 1, Len(body))
        m    == StrToNat(d1 \o d2)
    IN  PyFloat(IF neg THEN -m ELSE m, Len(d2))

\* int(t) succeeds: surrounding whitespace, optional sign, one or more digits
IntLiteral(t) ==
    LET u    == StripSet(t, Whitespace)
        body == SubSeq(u, SignLen(u) + 1, Len(u))
    IN  body # "" /\ AllDigits(body)

IntValue(t) ==
    LET u    == StripSet(t, Whitespace)
        sg   == SignLen(u)
        m    == StrToNat(SubSeq(u, sg + 1, Len(u)))
    IN  PyInt(IF sg = 1 /\ Char(u, 1) = "-" THEN -m ELSE m)

\* float(t) succeeds (t holds a point): digits around exactly one point,
\* at least one digit
FloatLiteral(t) ==
    LET u    == StripSet(t, Whitespace)
        body == SubSeq(u, SignLen(u) + 1, Len(u))
        dots == DotAt(body)
    IN  /\ Cardinality(dots) = 1
        /\ Len(body) >= 2
        /\ \A i \in (1..Len(body)) \ dots : Char(body, i) \in DigitSet

---------------------------------------------------------------------------
(* parse_snmp_value *)

type_patterns == <<"INTEGER:", "STRING:", "Gauge32:", "Counter32:", "Opaque:", "OID:">>

\* re.sub(r'^TAG:\s*', '', value_part)
SubTag(value_part, tag) ==
    IF StartsWith(value_part, tag)
    THEN LStripSet(SubSeq(value_part, Len(tag) + 1, Len(value_part)), Whitespace)
    ELSE value_part

\* the loop over type_patterns: patterns i..6 applied in turn
RECURSIVE SubTags(_, _)
SubTags(value_part, i) ==
    IF i > Len(type_patterns) THEN value_part
    ELSE SubTags(SubTag(value_part, type_patterns[i]), i + 1)

\* the conversion attempt of lines 136-141
ToNumberOrText(value_part) ==
    IF Contains(value_part, ".")
    THEN IF FloatLiteral(value_part)
         THEN DecimalValue(StripSet(value_part, Whitespace))
         ELSE PyStr(value_part)
    ELSE IF IntLiteral(value_part)
         THEN IntValue(value_part)
         ELSE PyStr(value_part)

\* the text after the first "="
AfterFirstEq(t) ==
    SubSeq(t, Min({i \in 1..Len(t) : Char(t, i) = "="}) + 1, Len(t))

\* parse_snmp_value whose fallback of line 145 returns the text untrimmed
parse_snmp_value_NoStrip(raw_value) ==
    IF ~Truthy(raw_value) \/ IsNumber(raw_value)
    THEN raw_value
    ELSE IF Contains(raw_value.s, "=")
         THEN ToNumberOrText(
                  StripSet(SubTags(StripSet(AfterFirstEq(raw_value.s), Whitespace), 1),
                           Quotes))
         ELSE PyStr(raw_value.s)

parse_snmp_value(raw_value) ==
    IF ~Truthy(raw_value) \/ IsNumber(raw_value)
    THEN raw_value
    ELSE IF Contains(raw_value.s, "=")
         THEN ToNumberOrText(
                  StripSet(SubTags(StripSet(AfterFirstEq(raw_value.s), Whitespace), 1),
                           Quotes))
         ELSE PyStr(StripSet(raw_value.s, Whitespace))

---------------------------------------------------------------------------
(* get_numeric_value *)

\* number of consecutive digits of t from position i on
DigitRun(t, i) ==
    Max({j \in (i - 1)..Len(t) : \A k \in i..j : Char(t, k) \in DigitSet}) - i + 1

\* length of the match of [-+]?\d*\.?\d+ starting at position i (0: none)
MatchLen(t, i) ==
    LET sg == IF Char(t, i) \in {"-", "+"} THEN 1 ELSE 0
        p  == i + sg
        a  == DigitRun(t, p)
        q  == p + a
        b  == IF q <= Len(t) /\ Char(t, q) = "." THEN DigitRun(t, q + 1) ELSE 0
    IN  IF b > 0 THEN sg + a + 1 + b
        ELSE IF a > 0 THEN sg + a
        ELSE 0

\* re.search: the leftmost match, "" when there is none
NumericMatch(t) ==
    LET starts == {i \in 1..Len(t) : MatchLen(t, i) > 0}
    IN  IF starts = {} THEN ""
        ELSE SubSeq(t, Min(starts), Min(starts) + MatchLen(t, Min(starts)) - 1)

get_numeric_value(value) ==
    IF value.kind = "none" THEN None
    ELSE IF value.kind = "int" THEN float_of_int(value.n)
    ELSE IF IsFloat(value) THEN value
    ELSE IF NumericMatch(value.s) # "" THEN DecimalValue(NumericMatch(value.s))
    ELSE None

---------------------------------------------------------------------------
(* decode_ups_state *)

state_map ==
    <<"Unknown",
      "Normal Operation",
      "On Battery",
      "Smart Boost (Low Voltage Compensation)",
      "Timed Sleeping",
      "Software Bypass",
      "Off",
      "Rebooting",
      "Switched Bypass",
      "Hardware Failure Bypass",
      "Sleeping Until Power Restored",
      "Smart Trim (High Voltage Compensation)">>

\* the default of state_map.get: the float state_num interpolated
UnknownState(state_num) == "Unknown State (" \o py_str(state_num) \o ")"

\* [ok |-> TRUE, v |-> description] or [ok |-> FALSE, v |-> message raised]
decode_ups_state(state_code) ==
    LET state_num == get_numeric_value(state_code)
    IN  IF state_num.kind # "none"
        THEN IF ~py_int(state_num).ok
             THEN [ok |-> FALSE, v |-> py_int(state_num).msg]
             ELSE IF py_int(state_num).n \in DOMAIN state_map
                  THEN [ok |-> TRUE, v |-> state_map[py_int(state_num).n]]
                  ELSE [ok |-> TRUE, v |-> UnknownState(state_num)]
        ELSE [ok |-> TRUE, v |-> "State Unknown"]

---------------------------------------------------------------------------
(* calculate_quality_score *)

\* Deduction with the HIGH test ahead of the CRITICAL test
Deduction_HighFirst(issue) ==
    IF Contains(issue, "HIGH") \/ Contains(issue, "COMPENSATION") THEN 15
    ELSE IF Contains(issue, "CRITICAL") \/ Contains(issue, "POWER_FAILURE") THEN 30
    ELSE IF Contains(issue, "MODERATE") \/ Contains(issue, "WARNING") THEN 10
    ELSE 5

\* Deduction with the last branch deducting what the branch above deducts
Deduction_DefaultTen(issue) ==
    IF Contains(issue, "CRITICAL") \/ Contains(issue, "POWER_FAILURE") THEN 30
    ELSE IF Contains(issue, "HIGH") \/ Contains(issue, "COMPENSATION") THEN 15
    ELSE 10

\* the deduction of one issue: the first matching branch of lines 249-256
Deduction(issue) ==
    IF Contains(issue, "CRITICAL") \/ Contains(issue, "POWER_FAILURE") THEN 30
    ELSE IF Contains(issue, "HIGH") \/ Contains(issue, "COMPENSATION") THEN 15
    ELSE IF Contains(issue, "MODERATE") \/ Contains(issue, "WARNING") THEN 10
    ELSE 5

\* the loop of line 248 from issue i on, score being the running value
RECURSIVE ScoreLoop(_, _, _)
ScoreLoop(issue_list, i, score) ==
    IF i > Len(issue_list) THEN score
    ELSE ScoreLoop(issue_list, i + 1, score - Deduction(issue_list[i]))

\* the score is a float with an integral value; its value is kept
calculate_quality_score(issue_list) ==
    IF issue_list = <<>> THEN 100
    ELSE LET score == ScoreLoop(issue_list, 1, 100)
         IN  IF score > 0 THEN score ELSE 0

---------------------------------------------------------------------------
(* generate_recommendations *)

AnyContains(issue_list, p) ==
    \E i \in 1..Len(issue_list) : Contains(issue_list[i], p)

CompensationBlock ==
    <<"Investigate utility power quality - frequent compensation may indicate upstream issues",
      "Consider installing power conditioning equipment">>

LoadBlock ==
    <<"Plan for load redistribution or additional UPS capacity",
      "Review critical vs non-critical load classification">>

TemperatureBlock ==
    <<"Check UPS ventilation and ambient temperature",
      "Verify UPS internal fans are operational">>

FrequencyBlock ==
    <<"Contact utility company regarding power quality issues",
      "Consider generator or frequency regulation equipment">>

NormalBlock == <<"UPS operating normally - continue regular monitoring">>

\* generate_recommendations with the category tests chained by elif
generate_recommendations_Elif(issue_list) ==
    IF AnyContains(issue_list, "VOLTAGE_COMPENSATION") THEN CompensationBlock
    ELSE IF AnyContains(issue_list, "HIGH_LOAD") THEN LoadBlock
    ELSE IF AnyContains(issue_list, "HIGH_TEMPERATURE") THEN TemperatureBlock
    ELSE IF AnyContains(issue_list, "FREQUENCY") THEN FrequencyBlock
    ELSE IF issue_list = <<>> THEN NormalBlock
    ELSE <<>>

generate_recommendations(issue_list) ==
    (IF AnyContains(issue_list, "VOLTAGE_COMPENSATION") THEN CompensationBlock ELSE <<>>)
    \o (IF AnyContains(issue_list, "HIGH_LOAD") THEN LoadBlock ELSE <<>>)
    \o (IF AnyContains(issue_list, "HIGH_TEMPERATURE") THEN TemperatureBlock ELSE <<>>)
    \o (IF AnyContains(issue_list, "FREQUENCY") THEN FrequencyBlock ELSE <<>>)
    \o (IF issue_list = <<>> THEN NormalBlock ELSE <<>>)

---------------------------------------------------------------------------
(* analyze_power_quality: the rules of the five stages.  A rule yields the   *)
(* sequence of (issue, alert) pairs its stage appends: none or one.          *)

Finding(issue, alert) == [issue |-> issue, alert |-> alert]

\* lines 40-46
VoltageRule(input_voltage) ==
    IF Truthy(input_voltage)
    THEN IF FloatLT(input_voltage, 200)
         THEN <<Finding("UNDERVOLTAGE: " \o py_str(input_voltage) \o "V", "LOW_VOLTAGE")>>
         ELSE IF FloatGT(input_voltage, 250)
              THEN <<Finding("OVERVOLTAGE: " \o py_str(input_voltage) \o "V", "HIGH_VOLTAGE")>>
              ELSE <<>>
    ELSE <<>>

\* StateRule with the alert of the branch above pasted into the last branch
StateRule_PastedAlert(ups_state) ==
    IF FloatEq(ups_state, 4)
    THEN <<Finding("VOLTAGE_COMPENSATION: Smart Boost (Low Voltage Compensation)",
                   "COMPENSATION_ACTIVE")>>
    ELSE IF FloatEq(ups_state, 12)
    THEN <<Finding("VOLTAGE_COMPENSATION: Smart Trim (High Voltage Compensation)",
                   "COMPENSATION_ACTIVE")>>
    ELSE IF FloatEq(ups_state, 3)
    THEN <<Finding("POWER_FAILURE: Running on Battery", "COMPENSATION_ACTIVE")>>
    ELSE <<>>

\* lines 52-60
StateRule(ups_state) ==
    IF FloatEq(ups_state, 4)
    THEN <<Finding("VOLTAGE_COMPENSATION: Smart Boost (Low Voltage Compensation)",
                   "COMPENSATION_ACTIVE")>>
    ELSE IF FloatEq(ups_state, 12)
    THEN <<Finding("VOLTAGE_COMPENSATION: Smart Trim (High Voltage Compensation)",
                   "COMPENSATION_ACTIVE")>>
    ELSE IF FloatEq(ups_state, 3)
    THEN <<Finding("POWER_FAILURE: Running on Battery", "ON_BATTERY")>>
    ELSE <<>>

\* lines 66-72
LoadRule(output_load, capacity_watts) ==
    IF Truthy(output_load)
    THEN IF FloatGT(output_load, 80)
         THEN <<Finding("HIGH_LOAD: " \o py_str(output_load) \o "% ("
                            \o py_str(capacity_watts) \o "W capacity)",
                        "HIGH_LOAD")>>
         ELSE IF FloatGT(output_load, 60)
              THEN <<Finding("MODERATE_LOAD: " \o py_str(output_load) \o "%",
                             "MODERATE_LOAD")>>
              ELSE <<>>
    ELSE <<>>

\* lines 76-78; the unit text of the source is a two-character degree sign
\* followed by C, written here in ASCII
TemperatureRule(battery_temp) ==
    IF Truthy(battery_temp) /\ FloatGT(battery_temp, 35)
    THEN <<Finding("HIGH_TEMPERATURE: " \o py_str(battery_temp) \o "^C", "HIGH_TEMP")>>
    ELSE <<>>

\* lines 82-85
FrequencyRule(input_freq) ==
    IF Truthy(input_freq) /\ (FloatLT(input_freq, 49) \/ FloatGT(input_freq, 51))
    THEN <<Finding("FREQUENCY_DEVIATION: " \o py_str(input_freq) \o "Hz",
                   "FREQUENCY_ISSUE")>>
    ELSE <<>>

IssuesOf(findings) == [i \in 1..Len(findings) |-> findings[i].issue]

AlertsOf(findings) == [i \in 1..Len(findings) |-> findings[i].alert]

---------------------------------------------------------------------------
(* analyze_power_quality: objects *)

Keys == {"input_voltage", "ups_basic_state", "output_load",
         "battery_temperature", "input_frequency"}

\* a key the mapping does not hold
Absent == [kind |-> "absent", n |-> 0, e |-> 0, s |-> ""]

EmptyDict == [k \in {} |-> None]

\* dict.get(key, default)
Get(d, key, default) == IF key \in DOMAIN d THEN d[key] ELSE default

\* a Python object that may or may not be a mapping
Obj(type, items) == [type |-> type, items |-> items]

\* message of the AttributeError a non-mapping raises
NoAttribute(type, name) == "'" \o type \o "' object has no attribute '" \o name \o "'"

\* where an exception raised inside the try block of lines 30-96 lands:
\* the handler of line 98
Raise == "except"

\* the keys of the result for a completed and for a failed analysis
NormalKeys == {"power_quality_issues", "alerts", "parsed_snmp_data",
               "ups_state_description", "analysis_timestamp", "quality_score",
               "recommendations"}

DegradedKeys == {"power_quality_issues", "alerts", "error"}

---------------------------------------------------------------------------
(* analyze_power_quality: the inputs explored *)

RawFor(key) ==
    CASE key = "input_voltage" ->
            {Absent, PyInt(0), PyInt(-5), PyStr("iso.3.6.1.4 = INTEGER: 180"),
             PyInt(200), PyInt(250), PyStr("iso.3.6.1.4 = Gauge32: 260")}
      [] key = "ups_basic_state" ->
            {Absent, PyInt(2), PyStr("iso.3.6.1.2 = INTEGER: 3"), PyInt(4),
             PyStr("4.5"), PyInt(12), PyInt(99), Inf, NaN}
      [] key = "output_load" ->
            {Absent, PyStr("70.5 %"), PyInt(85)}
      [] key = "battery_temperature" ->
            {PyStr("n/a"), PyInt(35), PyStr("iso.3.6.1.7 = Gauge32: 40")}
      [] key = "input_frequency" ->
            {PyInt(50), PyInt(48), PyStr("iso.3.6.1.9 = STRING: \"51.5\"")}

\* the mapping that holds the keys given a value
SnmpDict(v, st, l, tp, fr) ==
    LET f == [input_voltage |-> v, ups_basic_state |-> st, output_load |-> l,
              battery_temperature |-> tp, input_frequency |-> fr]
    IN  [k \in {x \in Keys : f[x] # Absent} |-> f[k]]

\* the mappings snmp_data may be
SnmpDicts ==
    {SnmpDict(v, st, l, tp, fr) :
        v \in RawFor("input_voltage"), st \in RawFor("ups_basic_state"),
        l \in RawFor("output_load"), tp \in RawFor("battery_temperature"),
        fr \in RawFor("input_frequency")}

\* capacity_watts: absent (the default of line 64 applies), a number, a text
CapacityInputs == {Absent, PyInt(1500), PyStr("CRITICAL")}

\* the mappings that hold output_load alone
LoadOnlyDicts == {[k \in {"output_load"} |-> v] : v \in RawFor("output_load") \ {Absent}}

MonitoringDict(snmp, capacity) ==
    Obj("dict",
        [k \in {"snmp_data"} \cup (IF capacity = Absent THEN {} ELSE {"capacity_watts"})
            |-> IF k = "snmp_data" THEN snmp ELSE capacity])

MonitoringInputs ==
    {MonitoringDict(Obj("dict", d), PyInt(1500)) : d \in SnmpDicts}
    \cup {MonitoringDict(Obj("dict", d), c) : d \in LoadOnlyDicts, c \in CapacityInputs}
    \cup {MonitoringDict(Obj(ty, EmptyDict), Absent) : ty \in {"NoneType", "str"}}
    \cup {Obj("dict", EmptyDict), Obj("list", EmptyDict), Obj("NoneType", EmptyDict)}

---------------------------------------------------------------------------
(* analyze_power_quality: the steps *)

\* lines 24-28: the call, with its locals initialised
Init ==
    /\ pc = "line31"
    /\ monitoring_data \in MonitoringInputs
    /\ snmp_data = Obj("unset", EmptyDict)
    /\ todo = {}
    /\ parsed_data = EmptyDict
    /\ issues = <<>>
    /\ alerts = <<>>
    /\ state_info = ""
    /\ exc = ""
    /\ analysis = EmptyDict
    /\ filter = ""
    /\ arg = None
    /\ out = None

\* line 31
GetSnmpData ==
    /\ pc = "line31"
    /\ IF monitoring_data.type # "dict"
       THEN /\ exc' = NoAttribute(monitoring_data.type, "get")
            /\ pc' = Raise
            /\ UNCHANGED <<snmp_data, todo>>
       ELSE /\ snmp_data' = Get(monitoring_data.items, "snmp_data", Obj("dict", EmptyDict))
            /\ todo' = DOMAIN snmp_data'.items
            /\ pc' = "line35"
            /\ exc' = exc
    /\ UNCHANGED <<monitoring_data, parsed_data, issues, alerts, state_info, analysis>>
    /\ UNCHANGED filterVars

\* lines 35-36: one iteration of the loop, in whatever order the mapping
\* yields its keys, or the loop's end
ParseLoop ==
    /\ pc = "line35"
    /\ IF snmp_data.type # "dict"
       THEN /\ exc' = NoAttribute(snmp_data.type, "items")
            /\ pc' = Raise
            /\ UNCHANGED <<todo, parsed_data>>
       ELSE IF todo # {}
       THEN /\ \E key \in todo :
                 /\ parsed_data' =
                        [k \in DOMAIN parsed_data \cup {key} |->
                            IF k = key THEN parse_snmp_value(snmp_data.items[key])
                            ELSE parsed_data[k]]
                 /\ todo' = todo \ {key}
            /\ UNCHANGED <<pc, exc>>
       ELSE /\ pc' = "line39"
            /\ UNCHANGED <<todo, parsed_data, exc>>
    /\ UNCHANGED <<monitoring_data, snmp_data, issues, alerts, state_info, analysis>>
    /\ UNCHANGED filterVars

\* lines 39-46
VoltageStage ==
    /\ pc = "line39"
    /\ LET input_voltage == get_numeric_value(Get(parsed_data, "input_voltage", None))
           found == VoltageRule(input_voltage)
       IN  /\ issues' = issues \o IssuesOf(found)
           /\ alerts' = alerts \o AlertsOf(found)
    /\ pc' = "line49"
    /\ UNCHANGED <<monitoring_data, snmp_data, todo, parsed_data, state_info, exc, analysis>>
    /\ UNCHANGED filterVars

\* lines 49-60
StateStage ==
    /\ pc = "line49"
    /\ LET ups_state == get_numeric_value(Get(parsed_data, "ups_basic_state", None))
           decoded == decode_ups_state(ups_state)
           found == StateRule(ups_state)
       IN  IF ~decoded.ok
           THEN /\ exc' = decoded.v
                /\ pc' = Raise
                /\ UNCHANGED <<state_info, issues, alerts>>
           ELSE /\ state_info' = decoded.v
                /\ issues' = issues \o IssuesOf(found)
                /\ alerts' = alerts \o AlertsOf(found)
                /\ pc' = "line63"
                /\ exc' = exc
    /\ UNCHANGED <<monitoring_data, snmp_data, todo, parsed_data, analysis>>
    /\ UNCHANGED filterVars

\* lines 63-72
LoadStage ==
    /\ pc = "line63"
    /\ LET output_load == get_numeric_value(Get(parsed_data, "output_load", None))
           capacity_watts == Get(monitoring_data.items, "capacity_watts", PyInt(1000))
           found == LoadRule(output_load, capacity_watts)
       IN  /\ issues' = issues \o IssuesOf(found)
           /\ alerts' = alerts \o AlertsOf(found)
    /\ pc' = "line75"
    /\ UNCHANGED <<monitoring_data, snmp_data, todo, parsed_data, state_info, exc, analysis>>
    /\ UNCHANGED filterVars

\* lines 75-78
TemperatureStage ==
    /\ pc = "line75"
    /\ LET battery_temp == get_numeric_value(Get(parsed_data, "battery_temperature", None))
           found == TemperatureRule(battery_temp)
       IN  /\ issues' = issues \o IssuesOf(found)
           /\ alerts' = alerts \o AlertsOf(found)
    /\ pc' = "line81"
    /\ UNCHANGED <<monitoring_data, snmp_data, todo, parsed_data, state_info, exc, analysis>>
    /\ UNCHANGED filterVars

\* FrequencyStage run only when no earlier stage found an issue
FrequencyStage_EarlyExit ==
    /\ pc = "line81"
    /\ LET input_freq == get_numeric_value(Get(parsed_data, "input_frequency", None))
           found == IF issues = <<>> THEN FrequencyRule(input_freq) ELSE <<>>
       IN  /\ issues' = issues \o IssuesOf(found)
           /\ alerts' = alerts \o AlertsOf(found)
    /\ pc' = "line88"
    /\ UNCHANGED <<monitoring_data, snmp_data, todo, parsed_data, state_info, exc, analysis>>
    /\ UNCHANGED filterVars

\* lines 81-85
FrequencyStage ==
    /\ pc = "line81"
    /\ LET input_freq == get_numeric_value(Get(parsed_data, "input_frequency", None))
           found == FrequencyRule(input_freq)
       IN  /\ issues' = issues \o IssuesOf(found)
           /\ alerts' = alerts \o AlertsOf(found)
    /\ pc' = "line88"
    /\ UNCHANGED <<monitoring_data, snmp_data, todo, parsed_data, state_info, exc, analysis>>
    /\ UNCHANGED filterVars

\* the record of lines 88-96; the timestamp is the clock's reading, kept opaque
Summary(issue_list, alert_list, parsed, description) ==
    [power_quality_issues  |-> issue_list,
     alerts                |-> alert_list,
     parsed_snmp_data      |-> parsed,
     ups_state_description |-> description,
     analysis_timestamp    |-> "now",
     quality_score         |-> calculate_quality_score(issue_list),
     recommendations       |-> generate_recommendations(issue_list)]

\* Degraded appending to the lists gathered so far instead of replacing them
Degraded_KeepsFindings(message, issue_list, alert_list) ==
    [power_quality_issues |-> issue_list \o <<"ANALYSIS_ERROR: " \o message>>,
     alerts               |-> alert_list \o <<"ANALYSIS_FAILED">>,
     error                |-> message]

\* the record of lines 99-103
Degraded(message, issue_list, alert_list) ==
    [power_quality_issues |-> <<"ANALYSIS_ERROR: " \o message>>,
     alerts               |-> <<"ANALYSIS_FAILED">>,
     error                |-> message]

\* lines 88-96, then the return of line 105
Assemble ==
    /\ pc = "line88"
    /\ analysis' = Summary(issues, alerts, parsed_data, state_info)
    /\ pc' = "return"
    /\ UNCHANGED <<monitoring_data, snmp_data, todo, parsed_data, issues, alerts,
                   state_info, exc>>
    /\ UNCHANGED filterVars

\* lines 98-103, then the return of line 105
ExceptHandler ==
    /\ pc = "except"
    /\ analysis' = Degraded(exc, issues, alerts)
    /\ pc' = "return"
    /\ UNCHANGED <<monitoring_data, snmp_data, todo, parsed_data, issues, alerts,
                   state_info, exc>>
    /\ UNCHANGED filterVars

Next ==
    \/ GetSnmpData
    \/ ParseLoop
    \/ VoltageStage
    \/ StateStage
    \/ LoadStage
    \/ TemperatureStage
    \/ FrequencyStage
    \/ Assemble
    \/ ExceptHandler

Spec == Init /\ [][Next]_vars

---------------------------------------------------------------------------
(* The methods called on their own: parse_snmp_value and decode_ups_state  *)
(* (registered as filters at lines 17-18), calculate_quality_score and     *)
(* generate_recommendations.                                               *)

\* longest issue list explored
MaxIssues == 4

\* most "=" characters in a raw text explored
MaxEq == 2

\* largest state code explored
MaxCode == 14

IssueAlphabet ==
    {"VOLTAGE_COMPENSATION: Smart Boost (Low Voltage Compensation)",
     "POWER_FAILURE: Running on Battery",
     "HIGH_LOAD: 85.0% (1000W capacity)",
     "MODERATE_LOAD: 70.5%",
     "HIGH_TEMPERATURE: 40.0^C",
     "FREQUENCY_DEVIATION: 48.0Hz",
     "CRITICAL: HIGH_LOAD WARNING"}

IssueLists == UNION {[1..n -> IssueAlphabet] : n \in 0..MaxIssues}

Heads == {"iso.3.6.1.4", " 228 ", "OID: x "}

Segments ==
    {" INTEGER: 228", " STRING: \"Smart-UPS 1500\"", " ' a '", " 4.5 ", " b", ""}

\* the texts with exactly k "=" characters
RECURSIVE WithEq(_)
WithEq(k) ==
    IF k = 0 THEN Heads
    ELSE {t \o "=" \o sg : t \in WithEq(k - 1), sg \in Segments}

RawValues ==
    {None, PyStr(""), PyInt(0), PyInt(228), PyFloat(45, 1), Inf}
    \cup {PyStr(t) : t \in UNION {WithEq(k) : k \in 0..MaxEq}}

StateCodes ==
    {None, Inf, NaN, PyInt(99), PyStr("4.5"), PyStr("On Battery")}
    \cup {PyInt(i) : i \in -2..MaxCode}
    \cup {PyFloat(m, 1) : m \in -15..(10 * MaxCode)}

Methods == {"parse_snmp_value", "decode_ups_state", "calculate_quality_score",
            "generate_recommendations"}

ArgsOf(method) ==
    CASE method = "parse_snmp_value" -> RawValues
      [] method = "decode_ups_state" -> StateCodes
      [] OTHER -> IssueLists

InitFilters ==
    /\ pc = "call"
    /\ filter \in Methods
    /\ arg \in ArgsOf(filter)
    /\ out = None
    /\ monitoring_data = Obj("unset", EmptyDict)
    /\ snmp_data = Obj("unset", EmptyDict)
    /\ todo = {}
    /\ parsed_data = EmptyDict
    /\ issues = <<>>
    /\ alerts = <<>>
    /\ state_info = ""
    /\ exc = ""
    /\ analysis = EmptyDict

Call_parse_snmp_value ==
    /\ pc = "call" /\ filter = "parse_snmp_value"
    /\ out' = parse_snmp_value(arg)
    /\ pc' = "return"
    /\ UNCHANGED <<filter, arg>>
    /\ UNCHANGED evalVars

Call_decode_ups_state ==
    /\ pc = "call" /\ filter = "decode_ups_state"
    /\ out' = decode_ups_state(arg)
    /\ pc' = "return"
    /\ UNCHANGED <<filter, arg>>
    /\ UNCHANGED evalVars

Call_calculate_quality_score ==
    /\ pc = "call" /\ filter = "calculate_quality_score"
    /\ out' = calculate_quality_score(arg)
    /\ pc' = "return"
    /\ UNCHANGED <<filter, arg>>
    /\ UNCHANGED evalVars

Call_generate_recommendations ==
    /\ pc = "call" /\ filter = "generate_recommendations"
    /\ out' = generate_recommendations(arg)
    /\ pc' = "return"
    /\ UNCHANGED <<filter, arg>>
    /\ UNCHANGED evalVars

NextFilters ==
    \/ Call_parse_snmp_value
    \/ Call_decode_ups_state
    \/ Call_calculate_quality_score
    \/ Call_generate_recommendations

SpecFilters == InitFilters /\ [][NextFilters]_vars

---------------------------------------------------------------------------
(* Properties of analyze_power_quality (checked under Spec) *)

\* the category prefix of an issue: its text before the first ":"
Category(issue) ==
    SubSeq(issue, 1, Min({i \in 1..Len(issue) : Char(issue, i) = ":"}) - 1)

Range(sq) == {sq[i] : i \in 1..Len(sq)}

HasCategory(issue_list, cat) ==
    \E i \in 1..Len(issue_list) : Category(issue_list[i]) = cat

Returned == pc = "return"

Completed == Returned /\ DOMAIN analysis = NormalKeys

Failed == Returned /\ DOMAIN analysis = DegradedKeys

\* what numeric extraction yields for a metric of the call's input
Extracted(key) ==
    get_numeric_value(parse_snmp_value(Get(snmp_data.items, key, None)))

AlertFor(cat) ==
    CASE cat = "UNDERVOLTAGE"         -> "LOW_VOLTAGE"
      [] cat = "OVERVOLTAGE"          -> "HIGH_VOLTAGE"
      [] cat = "VOLTAGE_COMPENSATION" -> "COMPENSATION_ACTIVE"
      [] cat = "POWER_FAILURE"        -> "ON_BATTERY"
      [] cat = "HIGH_LOAD"            -> "HIGH_LOAD"
      [] cat = "MODERATE_LOAD"        -> "MODERATE_LOAD"
      [] cat = "HIGH_TEMPERATURE"     -> "HIGH_TEMP"
      [] cat = "FREQUENCY_DEVIATION"  -> "FREQUENCY_ISSUE"
      [] cat = "ANALYSIS_ERROR"       -> "ANALYSIS_FAILED"
      [] OTHER                        -> "?"

Paired(issue_list, alert_list) ==
    /\ Len(alert_list) = Len(issue_list)
    /\ \A i \in 1..Len(issue_list) : alert_list[i] = AlertFor(Category(issue_list[i]))

\* C1: in every returned result, normal or degraded, alerts and issues have
\* the same length and the i-th alert is the tag paired with the category of
\* the i-th issue.
C1_AlertsPairedWithIssues ==
    /\ Paired(issues, alerts)
    /\ Returned => Paired(analysis.power_quality_issues, analysis.alerts)

C1_Witness ==
    /\ Completed
    /\ Len(analysis.alerts) = 3
    /\ analysis.alerts[2] = "ON_BATTERY"

StageOf(cat) ==
    CASE cat \in {"UNDERVOLTAGE", "OVERVOLTAGE"}           -> 1
      [] cat \in {"VOLTAGE_COMPENSATION", "POWER_FAILURE"} -> 2
      [] cat \in {"HIGH_LOAD", "MODERATE_LOAD"}            -> 3
      [] cat = "HIGH_TEMPERATURE"                          -> 4
      [] cat = "FREQUENCY_DEVIATION"                       -> 5
      [] OTHER                                             -> 0

StageAt(issue_list, i) == StageOf(Category(issue_list[i]))

\* what each stage's rule yields for the call's input, on its own
StageIssues(stage) ==
    IssuesOf(CASE stage = 1 -> VoltageRule(Extracted("input_voltage"))
               [] stage = 2 -> StateRule(Extracted("ups_basic_state"))
               [] stage = 3 -> LoadRule(Extracted("output_load"),
                                        Get(monitoring_data.items, "capacity_watts",
                                            PyInt(1000)))
               [] stage = 4 -> TemperatureRule(Extracted("battery_temperature"))
               [] stage = 5 -> FrequencyRule(Extracted("input_frequency")))

\* C2: a completed result holds at most one issue of each stage, at most 5
\* in all, in the order voltage, state, load, temperature, frequency, in
\* whatever order the keys of snmp_data were visited; each stage contributes
\* what its rule yields whether or not an earlier stage produced an issue.
C2_StageOrderNoEarlyExit ==
    Completed =>
        LET l == analysis.power_quality_issues
        IN  /\ Len(l) <= 5
            /\ \A i \in 1..Len(l) : StageAt(l, i) \in 1..5
            /\ \A i, j \in 1..Len(l) : i < j => StageAt(l, i) < StageAt(l, j)
            /\ \A stage \in 1..5 :
                   {l[i] : i \in {x \in 1..Len(l) : StageAt(l, x) = stage}}
                       = Range(StageIssues(stage))

C2_Witness ==
    /\ Completed
    /\ Len(analysis.power_quality_issues) = 5
    /\ StageAt(analysis.power_quality_issues, 1) = 1
    /\ StageAt(analysis.power_quality_issues, 5) = 5

\* C3: once the voltage stage has run, with v the number extracted from
\* input_voltage: UNDERVOLTAGE with LOW_VOLTAGE is emitted iff v < 200,
\* OVERVOLTAGE with HIGH_VOLTAGE iff v > 250, never both, for every number v
\* (0 and negative values included); nothing is emitted when v is none.
C3_VoltageRuleForEveryNumber ==
    pc = "line49" =>
        LET v == Extracted("input_voltage")
            under == HasCategory(issues, "UNDERVOLTAGE") /\ "LOW_VOLTAGE" \in Range(alerts)
            over  == HasCategory(issues, "OVERVOLTAGE") /\ "HIGH_VOLTAGE" \in Range(alerts)
        IN  /\ v.kind # "none" =>
                  /\ under <=> FloatLT(v, 200)
                  /\ over <=> FloatGT(v, 250)
                  /\ ~(under /\ over)
            /\ v.kind = "none" => issues = <<>>

\* C4: in a completed result, with s the number extracted from
\* ups_basic_state and n its truncation toward zero: the Smart Boost issue is
\* present iff n = 4, the Smart Trim issue iff n = 12, the POWER_FAILURE issue
\* iff n = 3, at most one of them; and the state description names On
\* Battery, Smart Boost, Smart Trim iff the matching issue is present.
C4_StateRuleTruncates ==
    Completed =>
        LET l     == analysis.power_quality_issues
            s     == Extracted("ups_basic_state")
            n     == py_int(s).n
            boost == "VOLTAGE_COMPENSATION: Smart Boost (Low Voltage Compensation)" \in Range(l)
            trim  == "VOLTAGE_COMPENSATION: Smart Trim (High Voltage Compensation)" \in Range(l)
            batt  == "POWER_FAILURE: Running on Battery" \in Range(l)
            desc  == analysis.ups_state_description
        IN  /\ s.kind # "none" =>
                  /\ boost <=> n = 4
                  /\ trim <=> n = 12
                  /\ batt <=> n = 3
            /\ ~(boost /\ trim) /\ ~(boost /\ batt) /\ ~(trim /\ batt)
            /\ desc = "On Battery" <=> batt
            /\ desc = "Smart Boost (Low Voltage Compensation)" <=> boost
            /\ desc = "Smart Trim (High Voltage Compensation)" <=> trim

\* the inputs on which the evaluation fails
FailingInput ==
    \/ monitoring_data.type # "dict"
    \/ Get(monitoring_data.items, "snmp_data", Obj("dict", EmptyDict)).type # "dict"
    \/ Extracted("ups_basic_state").kind \in {"inf", "nan"}

\* C5: no exception leaves analyze_power_quality: every failure ends in the
\* handler, and the result returned is then exactly one issue
\* "ANALYSIS_ERROR: <message>", one alert "ANALYSIS_FAILED" and the same
\* message as error, without the issues and alerts detected before the failure.
C5_FailureGivesDegradedResult ==
    /\ pc \in {"line31", "line35", "line39", "line49", "line63", "line75", "line81",
               "line88", "except", "return"}
    /\ pc = "except" => exc # ""
    /\ Returned =>
          IF FailingInput
          THEN /\ exc # ""
               /\ DOMAIN analysis = DegradedKeys
               /\ analysis.power_quality_issues = <<"ANALYSIS_ERROR: " \o exc>>
               /\ analysis.alerts = <<"ANALYSIS_FAILED">>
               /\ analysis.error = exc
          ELSE exc = "" /\ DOMAIN analysis = NormalKeys

C5_Witness ==
    /\ Failed
    /\ issues = <<"UNDERVOLTAGE: 180.0V">>
    /\ analysis.error = "cannot convert float infinity to integer"

FixedDeduction(cat) ==
    CASE cat \in {"UNDERVOLTAGE", "OVERVOLTAGE", "FREQUENCY_DEVIATION"}     -> 5
      [] cat \in {"VOLTAGE_COMPENSATION", "HIGH_LOAD", "HIGH_TEMPERATURE"}  -> 15
      [] cat = "POWER_FAILURE"                                              -> 30
      [] cat = "MODERATE_LOAD"                                              -> 10
      [] OTHER                                                              -> 0

RECURSIVE SumFixed(_)
SumFixed(issue_list) ==
    IF issue_list = <<>> THEN 0
    ELSE FixedDeduction(Category(Head(issue_list))) + SumFixed(Tail(issue_list))

\* C10: in a completed result with a numeric capacity_watts, quality_score is
\* 100 minus the fixed per-category deductions of the result's issues, never
\* below 30; it is 100 iff there is no issue, iff the recommendations are the
\* single "operating normally" text.
C10_ScoreOfEvaluatorIssues ==
    (Completed /\ IsNumber(Get(monitoring_data.items, "capacity_watts", PyInt(1000)))) =>
        LET l == analysis.power_quality_issues
        IN  /\ analysis.quality_score = 100 - SumFixed(l)
            /\ analysis.quality_score >= 30
            /\ analysis.quality_score = 100 <=> l = <<>>
            /\ l = <<>> <=>
                  analysis.recommendations
                      = <<"UPS operating normally - continue regular monitoring">>

C10_Witness ==
    /\ Completed
    /\ IsNumber(Get(monitoring_data.items, "capacity_watts", PyInt(1000)))
    /\ analysis.quality_score = 30
    /\ Len(analysis.recommendations) = 6

---------------------------------------------------------------------------
(* Properties of the methods called on their own (checked under SpecFilters) *)

ReturnedFrom(method) == pc = "return" /\ filter = method

\* the deduction of one issue as the scorer's contract words it
ContractDeduction(issue) ==
    CASE Contains(issue, "CRITICAL") \/ Contains(issue, "POWER_FAILURE") -> 30
      [] ~(Contains(issue, "CRITICAL") \/ Contains(issue, "POWER_FAILURE"))
         /\ (Contains(issue, "HIGH") \/ Contains(issue, "COMPENSATION")) -> 15
      [] ~(Contains(issue, "CRITICAL") \/ Contains(issue, "POWER_FAILURE"))
         /\ ~(Contains(issue, "HIGH") \/ Contains(issue, "COMPENSATION"))
         /\ (Contains(issue, "MODERATE") \/ Contains(issue, "WARNING")) -> 10
      [] OTHER -> 5

RECURSIVE SumContract(_)
SumContract(issue_list) ==
    IF issue_list = <<>> THEN 0
    ELSE ContractDeduction(Head(issue_list)) + SumContract(Tail(issue_list))

\* issue_list with the issues at i and i + 1 exchanged
SwapAdjacent(issue_list, i) ==
    [k \in 1..Len(issue_list) |->
        IF k = i THEN issue_list[i + 1]
        ELSE IF k = i + 1 THEN issue_list[i]
        ELSE issue_list[k]]

\* C6: calculate_quality_score returns max(0, 100 - the sum of the per-issue
\* deductions), a value in [0,100], exactly 100 for the empty list, and the
\* same value when two neighbouring issues are exchanged (hence for every
\* reordering of the list).
C6_ScoreIsClampedSum ==
    ReturnedFrom("calculate_quality_score") =>
        /\ out = (IF 100 - SumContract(arg) > 0 THEN 100 - SumContract(arg) ELSE 0)
        /\ out \in 0..100
        /\ arg = <<>> => out = 100
        /\ \A i \in 1..(Len(arg) - 1) :
               calculate_quality_score(SwapAdjacent(arg, i)) = out

C6_Witness ==
    /\ ReturnedFrom("calculate_quality_score")
    /\ SumContract(arg) > 100
    /\ out = 0

\* every recommendation text, in the order the blocks are appended
AllRecommendations ==
    <<"Investigate utility power quality - frequent compensation may indicate upstream issues",
      "Consider installing power conditioning equipment",
      "Plan for load redistribution or additional UPS capacity",
      "Review critical vs non-critical load classification",
      "Check UPS ventilation and ambient temperature",
      "Verify UPS internal fans are operational",
      "Contact utility company regarding power quality issues",
      "Consider generator or frequency regulation equipment",
      "UPS operating normally - continue regular monitoring">>

\* the substring whose presence in some issue selects the i-th text
SelectedBy(i) ==
    CASE i \in {1, 2} -> "VOLTAGE_COMPENSATION"
      [] i \in {3, 4} -> "HIGH_LOAD"
      [] i \in {5, 6} -> "HIGH_TEMPERATURE"
      [] i \in {7, 8} -> "FREQUENCY"
      [] OTHER        -> ""

Wanted(issue_list) ==
    {i \in 1..9 : IF i = 9 THEN issue_list = <<>>
                  ELSE \E k \in 1..Len(issue_list) : Contains(issue_list[k], SelectedBy(i))}

\* the texts of AllRecommendations at the positions of S, in order
RECURSIVE Pick(_, _)
Pick(S, i) ==
    IF i > 9 THEN <<>>
    ELSE (IF i \in S THEN <<AllRecommendations[i]>> ELSE <<>>) \o Pick(S, i + 1)

\* C7: generate_recommendations returns, in the fixed order, the 2-text block
\* of each category that some issue contains, then the "operating normally"
\* text iff the list is empty; a block appears once however many issues match
\* it, and a non-empty list matching no category yields no recommendation.
C7_RecommendationBlocks ==
    ReturnedFrom("generate_recommendations") =>
        /\ out = Pick(Wanted(arg), 1)
        /\ generate_recommendations(arg \o arg) = out
        /\ (arg # <<>> /\ Wanted(arg) = {}) => out = <<>>

C7_Witness ==
    /\ ReturnedFrom("generate_recommendations")
    /\ Len(arg) = 4
    /\ arg[1] = arg[2]
    /\ Len(out) = 4

C7_WitnessNoCategory ==
    /\ ReturnedFrom("generate_recommendations")
    /\ arg # <<>>
    /\ out = <<>>

\* a value a second normalization leaves alone: a number, an empty value, or
\* a text without "=" and without leading or trailing whitespace
Settled(v) ==
    \/ v.kind # "str"
    \/ v.s = ""
    \/ ~Contains(v.s, "=") /\ StripSet(v.s, Whitespace) = v.s

\* C8 as claimed: normalizing the result of a normalization changes nothing.
C8_NormalizerIdempotent ==
    ReturnedFrom("parse_snmp_value") => parse_snmp_value(out) = out

\* C8 amended: normalizing the result again changes nothing exactly when the
\* result is a number, an empty value, or a text without "=" and without
\* surrounding whitespace; this covers every raw number, empty value and raw
\* text without "=".
C8_IdempotentOnSettledResults ==
    ReturnedFrom("parse_snmp_value") =>
        /\ parse_snmp_value(out) = out <=> Settled(out)
        /\ (arg.kind # "str" \/ ~Contains(arg.s, "=")) => parse_snmp_value(out) = out

C8_Witness ==
    /\ ReturnedFrom("parse_snmp_value")
    /\ arg = PyStr("iso.3.6.1.4= STRING: \"Smart-UPS 1500\"")
    /\ out = PyStr("Smart-UPS 1500")
    /\ parse_snmp_value(out) = out

\* C9: decode_ups_state returns "State Unknown" when extraction yields none;
\* otherwise, with n the number truncated toward zero, the table's
\* description for 1 <= n <= 12 and "Unknown State (<n>)", the integer n
\* interpolated, for every other n.
C9_DecodeInterpolatesInteger ==
    ReturnedFrom("decode_ups_state") =>
        LET state_num == get_numeric_value(arg)
            n == py_int(state_num).n
        IN  /\ out.ok
            /\ out.v = (IF state_num.kind = "none" THEN "State Unknown"
                        ELSE IF n \in 1..12 THEN state_map[n]
                        ELSE "Unknown State (" \o IntToStr(n) \o ")")

=============================================================================
